---- MODULE Spec2Model ----
(***************************************************************************)
(* SimpleGoBoard (assignment2/simple_board.py): the padded one-dimensional *)
(* Go board, its legality probe and committing play, and the boolean       *)
(* negamax solver with its transposition table and polled deadline.        *)
(*                                                                         *)
(* The board object is the state.  A call is one step: it runs the whole   *)
(* method on the object, leaves its return value (or the exception it      *)
(* raised) in `last`, and the caller's Return step makes the object        *)
(* available for the next call.                                            *)
(***************************************************************************)
EXTENDS Integers, Sequences, FiniteSets, TLC

VARIABLES size, board, current_player, ko_recapture, moves,
          current_winning_move, last

vars == <<size, board, current_player, ko_recapture, moves,
          current_winning_move, last>>

(***************************************************************************)
(* Bounds of the model.                                                    *)
(***************************************************************************)
\* board dimension of the main specification
Size == 2
\* committed moves per game of the main specification
MaxMoves == 2
\* the search is started only on positions with at most this many empty points
MaxSearchEmpties == 4
\* a finite time budget lets at most this many deadline polls pass
MaxBudget == 3
\* an effectively unlimited time budget: more polls than any search makes
Unlimited == 1000000
\* board dimension of the ko and search scenarios
LargeSize == 3
\* committed moves of the ko scenario
KoMoves == 4
\* the search scenario: committed moves, the rows of the board the players
\* move on, and the most empty points a search is started with
SearchMoves == 3
SearchRows == 2
SearchEmpties == 6
\* committed moves of the position-key scenario
CodeMoves == 2
BlockMoves == 3
\* the reset scenario: the largest size reset is called with, and the
\* committed moves between two resets
MaxResetSize == 3
ResetMoves == 1

(***************************************************************************)
(* board_util: colours, the pass sentinel, Python's None.                  *)
(***************************************************************************)
EMPTY == 0
BLACK == 1
WHITE == 2
BORDER == 3
None == -1
PASS == None
MAXSIZE == 25

opponent(color) == WHITE + BLACK - color

is_black_white(color) == color = BLACK \/ color = WHITE

Range(s) == {s[i] : i \in 1 .. Len(s)}

\* where1d: the indices of a boolean array that hold True, ascending
where1d(b, color) ==
    SelectSeq([i \in 1 .. Cardinality(DOMAIN b) |-> i - 1], LAMBDA p : b[p] = color)

(***************************************************************************)
(* Geometry fixed by reset(size).                                          *)
(***************************************************************************)
\* rows that begin one cell further right
row_start_shifted(sz, row) == row * (sz + 1) + 2

row_start(sz, row) == row * (sz + 1) + 1

\* the board reset builds: BORDER everywhere, EMPTY in the playing area
initialize_empty_points(sz) ==
    [p \in 0 .. (sz * sz + 3 * (sz + 1)) - 1 |->
        IF \E row \in 1 .. sz :
              p >= row_start(sz, row) /\ p < row_start(sz, row) + sz
        THEN EMPTY ELSE BORDER]

\* the four neighbours of a point, in the order of the source
all_neighbors(sz, point) ==
    <<point - 1, point + 1, point - (sz + 1), point + (sz + 1)>>

on_board_neighbors(sz, point) ==
    SelectSeq(all_neighbors(sz, point),
              LAMBDA nb : initialize_empty_points(sz)[nb] # BORDER)

\* the neighbour lists reset precomputes from its board
initialize_neighbors(sz) ==
    [point \in 0 .. (sz * sz + 3 * (sz + 1)) - 1 |->
        IF initialize_empty_points(sz)[point] = BORDER THEN <<>>
        ELSE on_board_neighbors(sz, point)]

\* what reset(sz) computes once for the lifetime of the board: NS, maxpoint,
\* the empty board, neighbors and valid_points
Reset ==
    [sz \in {Size, LargeSize} \cup (0 .. MaxResetSize) |->
        [NS           |-> sz + 1,
         maxpoint     |-> sz * sz + 3 * (sz + 1),
         board        |-> initialize_empty_points(sz),
         neighbors    |-> initialize_neighbors(sz),
         valid_points |-> where1d(initialize_empty_points(sz), EMPTY)]]

NS == Reset[size].NS

maxpoint == Reset[size].maxpoint

neighbors(point) == Reset[size].neighbors[point]

\* valid_point() at reset: the playing-area points (all EMPTY then)
valid_points == Reset[size].valid_points

\* _point_to_coord: row and column of a point
point_to_coord(point) ==
    IF point = None THEN "pass" ELSE <<point \div NS, point % NS>>

neighbors_of_color(b, point, color) ==
    SelectSeq(neighbors(point), LAMBDA nb : b[nb] = color)

find_neighbor_of_color(b, point, color) ==
    LET nbc == neighbors_of_color(b, point, color)
    IN  IF nbc = <<>> THEN None ELSE nbc[1]

is_surrounded(b, point, color) ==
    \A nb \in Range(neighbors(point)) : b[nb] = color

stone_has_liberty(b, stone) == find_neighbor_of_color(b, stone, EMPTY) # None

\* a fill that marks the neighbours of the stones on the stack and stops
flood_direct(b, color, marker, pointstack) ==
    marker \cup UNION {Range(neighbors_of_color(b, pointstack[i], color)) :
                          i \in 1 .. Len(pointstack)}

\* flood fill over same-coloured neighbours; the marker array as a set
RECURSIVE flood(_, _, _, _)
flood(b, color, marker, pointstack) ==
    IF pointstack = <<>> THEN marker
    ELSE LET p    == pointstack[Len(pointstack)]
             rest == SubSeq(pointstack, 1, Len(pointstack) - 1)
             new  == SelectSeq(neighbors_of_color(b, p, color),
                               LAMBDA nb : nb \notin marker)
         IN  flood(b, color, marker \cup Range(new), rest \o new)

block_of(b, stone) == flood(b, b[stone], {stone}, <<stone>>)

\* assert is_black_white(color), for the color of the cell at stone
block_of_asserted(b, stone) == is_black_white(b[stone])

\* the first liberty found scanning the stones of the block in index order
get_liberty(b, block) ==
    LET with_lib == {stone \in block : find_neighbor_of_color(b, stone, EMPTY) # None}
    IN  IF with_lib = {} THEN None
        ELSE find_neighbor_of_color(b,
                 CHOOSE stone \in with_lib : \A t \in with_lib : stone <= t, EMPTY)

has_liberty(b, block) == get_liberty(b, block) # None

\* despite its name the helper removes nothing: it reports whether the block
\* on nb_point is without liberties
detect_and_process_capture(b, nb_point) == ~has_liberty(b, block_of(b, nb_point))

(***************************************************************************)
(* is_legal(point, color): the value returned and the board it leaves.     *)
(***************************************************************************)
\* is_legal with the undo missing where the probe finds a capture
is_legal_keeps_stone(b, point, color) ==
    IF point = PASS THEN [ret |-> FALSE, board |-> b]
    ELSE IF b[point] # EMPTY THEN [ret |-> FALSE, board |-> b]
    ELSE LET opp_color == opponent(color)
             placed    == [b EXCEPT ![point] = color]
             undone    == [placed EXCEPT ![point] = EMPTY]
         IN  IF \E nb \in Range(neighbors(point)) :
                    /\ placed[nb] = opp_color
                    /\ detect_and_process_capture(placed, nb)
             THEN [ret |-> FALSE, board |-> placed]
             ELSE IF /\ ~stone_has_liberty(placed, point)
                     /\ ~has_liberty(placed, block_of(placed, point))
             THEN [ret |-> FALSE, board |-> undone]
             ELSE [ret |-> TRUE, board |-> undone]

\* is_legal without the test for captures
is_legal_ignores_capture(b, point, color) ==
    IF point = PASS THEN [ret |-> FALSE, board |-> b]
    ELSE IF b[point] # EMPTY THEN [ret |-> FALSE, board |-> b]
    ELSE LET placed == [b EXCEPT ![point] = color]
             undone == [placed EXCEPT ![point] = EMPTY]
         IN  IF /\ ~stone_has_liberty(placed, point)
                /\ ~has_liberty(placed, block_of(placed, point))
             THEN [ret |-> FALSE, board |-> undone]
             ELSE [ret |-> TRUE, board |-> undone]

is_legal(b, point, color) ==
    IF point = PASS THEN [ret |-> FALSE, board |-> b]
    ELSE IF b[point] # EMPTY THEN [ret |-> FALSE, board |-> b]
    ELSE LET opp_color == opponent(color)
             placed    == [b EXCEPT ![point] = color]
             undone    == [placed EXCEPT ![point] = EMPTY]
         IN  IF \E nb \in Range(neighbors(point)) :
                    /\ placed[nb] = opp_color
                    /\ detect_and_process_capture(placed, nb)
             THEN [ret |-> FALSE, board |-> undone]
             ELSE IF /\ ~stone_has_liberty(placed, point)
                     /\ ~has_liberty(placed, block_of(placed, point))
             THEN [ret |-> FALSE, board |-> undone]
             ELSE [ret |-> TRUE, board |-> undone]

(***************************************************************************)
(* play_move(point, color): how the call ends and the fields it leaves.    *)
(* "pass" and "ko" return False, "ok" returns True, the others raise       *)
(* ValueError with that message.                                           *)
(***************************************************************************)
\* a commit that leaves current_player as it was
commit_keeps_player(cp, color) == cp

\* the player to move after color has committed a move
commit_player(cp, color) == opponent(color)

\* what the call does once the special cases are passed
play_general(b, ko, mv, cp, point, color) ==
    LET same == [outcome |-> "?", board |-> b, ko |-> ko, moves |-> mv, cp |-> cp]
        opp_color       == opponent(color)
        in_enemy_eye    == is_surrounded(b, point, opp_color)
        placed          == [b EXCEPT ![point] = color]
        single_captures == <<>>
    IN  IF \E nb \in Range(neighbors(point)) :
               /\ placed[nb] = opp_color
               /\ detect_and_process_capture(placed, nb)
        THEN \* raised with the stone still on the board
             [same EXCEPT !.outcome = "capture", !.board = placed]
        ELSE IF /\ ~stone_has_liberty(placed, point)
                /\ ~has_liberty(placed, block_of(placed, point))
        THEN [same EXCEPT !.outcome = "suicide",
                          !.board = [placed EXCEPT ![point] = EMPTY]]
        ELSE [outcome |-> "ok",
              board   |-> placed,
              ko      |-> IF in_enemy_eye /\ Len(single_captures) = 1
                          THEN single_captures[1] ELSE None,
              moves   |-> Append(mv, point),
              cp      |-> commit_player(cp, color)]

\* play_move with the occupied test missing
play_move_overwrites(b, ko, mv, cp, point, color) ==
    IF point = PASS
    THEN [outcome |-> "pass", board |-> b, ko |-> ko, moves |-> mv, cp |-> cp]
    ELSE IF point = ko
    THEN [outcome |-> "ko", board |-> b, ko |-> ko, moves |-> mv, cp |-> cp]
    ELSE play_general(b, ko, mv, cp, point, color)

play_move(b, ko, mv, cp, point, color) ==
    IF point = PASS
    THEN [outcome |-> "pass", board |-> b, ko |-> ko, moves |-> mv, cp |-> cp]
    ELSE IF b[point] # EMPTY
    THEN [outcome |-> "occupied", board |-> b, ko |-> ko, moves |-> mv, cp |-> cp]
    ELSE IF point = ko
    THEN [outcome |-> "ko", board |-> b, ko |-> ko, moves |-> mv, cp |-> cp]
    ELSE play_general(b, ko, mv, cp, point, color)

(***************************************************************************)
(* Position key and transposition table.                                   *)
(***************************************************************************)
RECURSIVE code_sum(_, _, _)
code_sum(b, pts, i) ==
    IF i > Len(pts) THEN 0
    ELSE b[pts[i]] * (3 ^ (pts[i] - size - 1)) + code_sum(b, pts, i + 1)

\* a key that leaves out the first point of valid_points
code_without_first_point(b) == code_sum(b, valid_points, 2)

\* a key that leaves out the last point of valid_points
code_without_last_point(b) ==
    code_sum(b, SubSeq(valid_points, 1, Len(valid_points) - 1), 1)

code(b) == code_sum(b, valid_points, 1)

\* TranspositionTable: a dictionary from position key to boolean
tt_new == [k \in {} |-> FALSE]

tt_has(tt, key) == key \in DOMAIN tt

tt_lookup(tt, key) == tt[key]

tt_store(tt, key, result) == [k \in DOMAIN tt \cup {key} |->
                                 IF k = key THEN result ELSE tt[k]]

(***************************************************************************)
(* The deadline.  self.time is compared with the clock at the top of every *)
(* search call and once more at the end of solve.  The clock never goes    *)
(* back, so a run of the search is fixed by how many of these polls still  *)
(* see the deadline ahead: `ticks`.                                        *)
(***************************************************************************)
expired(ticks) == ticks = 0

poll(ticks) == IF ticks = Unlimited THEN ticks ELSE ticks - 1

(***************************************************************************)
(* The search.  A search state s holds the fields the search reads and     *)
(* writes (board, cp, cwm), the table tt, ticks, and the value returned    *)
(* (ret).  restored, shrinks, depth, hits, first and cut observe the run:   *)
(* every finished call left board and cp as it found them; every recursive *)
(* call started with fewer empty points than its caller; the deepest       *)
(* nesting below; the number of calls answered from the table; the first   *)
(* point a stone was put on; some call returned because the deadline had   *)
(* passed.                                                                 *)
(***************************************************************************)
empty_count(b) == Cardinality({p \in DOMAIN b : b[p] = EMPTY})

\* a terminal rule that declares the side to move the winner
winner_is_mover(cp) == cp

winner(cp) == IF cp = WHITE THEN BLACK ELSE WHITE

staticallyEvaluateForPlay(cp) == winner(cp) = cp

\* an undo that takes the stone off but leaves the opponent to move
undo_move_keeps_player(child, move, color) ==
    [child EXCEPT !.board = [child.board EXCEPT ![move] = EMPTY]]

\* the undo after the recursive call
undo_move(child, move, color) ==
    [child EXCEPT !.board = [child.board EXCEPT ![move] = EMPTY], !.cp = color]

\* an early exit that does not record the move
win_exit_keeps_move(s, move, codes) ==
    [s EXCEPT !.tt = tt_store(s.tt, codes, TRUE), !.ret = TRUE,
              !.stores = @ + 1]

\* an early exit that starts the table afresh with its own entry
win_exit_evicts(s, move, codes) ==
    [s EXCEPT !.cwm = move, !.tt = tt_store(tt_new, codes, TRUE), !.ret = TRUE,
              !.stores = @ + 1]

\* the early exit on a winning child
win_exit(s, move, codes) ==
    [s EXCEPT !.cwm = move, !.tt = tt_store(s.tt, codes, TRUE), !.ret = TRUE,
              !.stores = @ + 1]

\* the terminal case: no move was legal
terminal_exit(s, codes) ==
    LET result == staticallyEvaluateForPlay(s.cp)
    IN  [s EXCEPT !.tt = tt_store(s.tt, codes, result), !.ret = result,
                  !.stores = @ + 1]

\* a loss that is cached as a win
loss_exit_caches_win(s, codes) ==
    [s EXCEPT !.tt = tt_store(s.tt, codes, TRUE), !.ret = FALSE,
              !.stores = @ + 1]

\* every legal move was tried and none won
loss_exit(s, codes) ==
    [s EXCEPT !.tt = tt_store(s.tt, codes, FALSE), !.ret = FALSE,
              !.stores = @ + 1]

\* a finished call left board and cp as it found them, and so did the calls
\* below it
observe(entry, exit) ==
    [exit EXCEPT !.restored = /\ exit.restored
                              /\ exit.board = entry.board
                              /\ exit.cp = entry.cp]

\* a deadline exit that caches the False it returns
deadline_exit_caches(s) ==
    [s EXCEPT !.ret = FALSE, !.cut = TRUE,
              !.tt = tt_store(s.tt, code(s.board), FALSE)]

\* the poll on entry finds the deadline passed: return False
deadline_exit(s) == [s EXCEPT !.ret = FALSE, !.cut = TRUE]

\* the poll on entry finds the deadline ahead: the table is probed for the
\* key of the position, and the side to move is noted under that key
probe(s, codes) ==
    [s EXCEPT !.ticks = poll(s.ticks),
              !.probes = @ + 1,
              !.same_side = /\ s.same_side
                            /\ codes \in DOMAIN s.sides => s.sides[codes] = s.cp,
              !.sides = [k \in DOMAIN s.sides \cup {codes} |->
                            IF k = codes THEN s.cp ELSE s.sides[k]]]

\* a cached position that is expanded all the same
cached_exit_expands(s, codes) ==
    [s EXCEPT !.ret = tt_lookup(s.tt, codes), !.hits = @ + 1, !.plies = @ + 1]

\* the key is in the table: return the cached boolean
cached_exit(s, codes) ==
    [s EXCEPT !.ret = tt_lookup(s.tt, codes), !.hits = @ + 1]

RECURSIVE negamaxBoolean(_), expand(_, _, _, _, _, _), try_move(_, _, _)

\* place move for color and hand the turn to the opponent
place_move(s, move, color) ==
    [s EXCEPT !.board = [s.board EXCEPT ![move] = color],
              !.cp = opponent(color),
              !.depth = 0,
              !.plies = @ + 1,
              !.first = IF s.first = None THEN move ELSE s.first]

\* the recursive call started from placed and returned child: undo the move
unplace_move(s, placed, child, move, color) ==
    [undo_move(child, move, color) EXCEPT
        !.shrinks = /\ child.shrinks
                    /\ empty_count(placed.board) < empty_count(s.board),
        !.depth   = IF child.depth + 1 > s.depth
                    THEN child.depth + 1 ELSE s.depth]

\* place move for color, recurse for the opponent, undo
try_move(s, move, color) ==
    unplace_move(s, place_move(s, move, color),
                 negamaxBoolean(place_move(s, move, color)), move, color)

\* the loop over empties, from its i-th element on
expand(s, empties, i, end, codes, color) ==
    IF i > Len(empties)
    THEN IF end THEN terminal_exit(s, codes) ELSE loss_exit(s, codes)
    ELSE LET move  == empties[i]
             legal == is_legal(s.board, move, color)
             s1    == [s EXCEPT !.board = legal.board]
         IN  IF legal.ret
             THEN LET after == try_move(s1, move, color)
                  IN  IF ~after.ret
                      THEN win_exit(after, move, codes)
                      ELSE expand(after, empties, i + 1, FALSE, codes, color)
             ELSE expand(s1, empties, i + 1, end, codes, color)

negamaxBoolean(s) ==
    IF expired(s.ticks) THEN deadline_exit(s)
    ELSE LET codes == code(s.board)
             s1    == probe(s, codes)
         IN  IF tt_has(s1.tt, codes)
             THEN cached_exit(s1, codes)
             ELSE observe(s, expand(s1, where1d(s1.board, EMPTY), 1, TRUE,
                                    codes, s1.cp))

\* the single-candidate entry point run as the generic search
solve_single_generic(s, point) == negamaxBoolean(s)

\* the point opposite to point[0] through the middle of the board
mirror(point) ==
    LET mid == (((size + 1) ^ 2) + size + 1) \div 2
    IN  mid + mid - point[1]

solve_single(s, point) ==
    LET fpoint == mirror(point)
    IN
    IF expired(s.ticks) THEN deadline_exit(s)
    ELSE LET codes   == code(s.board)
             s1      == probe(s, codes)
             empties == where1d(s1.board, EMPTY)
             color   == s1.cp
         IN  IF tt_has(s1.tt, codes)
             THEN cached_exit(s1, codes)
             ELSE IF fpoint \in Range(empties)
             THEN LET after == try_move(s1, fpoint, color)
                  IN  IF ~after.ret
                      THEN observe(s, win_exit(after, fpoint, codes))
                      ELSE observe(s, expand(after, empties, 1, FALSE, codes, color))
             ELSE observe(s, expand(s1, empties, 1, TRUE, codes, color))

\* the array of stones when the board holds exactly one; the None it
\* returns otherwise is the empty sequence here
sigle_play(b) ==
    LET point == where1d(b, BLACK) \o where1d(b, WHITE)
    IN  IF Len(point) = 1 THEN point ELSE <<>>

search_start(b, cp, cwm, ticks) ==
    [board |-> b, cp |-> cp, cwm |-> cwm, tt |-> tt_new, ticks |-> ticks,
     ret |-> FALSE, restored |-> TRUE, shrinks |-> TRUE, depth |-> 0,
     hits |-> 0, first |-> None, cut |-> FALSE, probes |-> 0, plies |-> 0,
     stores |-> 0, sides |-> <<>>, same_side |-> TRUE]

call_search(s, point) ==
    IF point = <<>> THEN negamaxBoolean(s) ELSE solve_single(s, point)

\* a deadline set to the budget alone, which the clock has long passed
deadline_without_now(budget) == 0

\* self.time = time.time() + timelimit, in deadline polls
deadline(budget) == budget

\* a solve that leaves timeOut as it initialised it
solve_flags_without_poll(r) == [run |-> r, win |-> r.ret, timeOut |-> FALSE]

\* the last poll of the clock in solve, after the search has returned
solve_flags(r) == [run |-> r, win |-> r.ret, timeOut |-> expired(r.ticks)]

\* solve(color, timelimit) up to its last poll of the clock: the search run
\* and the timeOut flag
solve_search(b, cp, cwm, budget) ==
    solve_flags(call_search(search_start(b, cp, cwm, deadline(budget)),
                            sigle_play(b)))

\* the first component of the triple solve returns
solve_result(win, color, cp) == win = (color = cp)

(***************************************************************************)
(* The state machine.                                                      *)
(***************************************************************************)
Colors == {BLACK, WHITE}

\* the opponent blocks next to point that have no liberty once color stands on it
blocks_taken(b, point, color) ==
    LET placed == [b EXCEPT ![point] = color]
    IN  {block_of(placed, nb) :
            nb \in {n \in Range(neighbors(point)) :
                       /\ placed[n] = opponent(color)
                       /\ ~has_liberty(placed, block_of(placed, n))}}

\* the single stone a play of color on point takes in the ko shape (point is
\* empty and surrounded by the opponent, and exactly one stone loses its last
\* liberty), None when the play is no such capture
ko_capture(b, point, color) ==
    IF point = PASS THEN None
    ELSE IF b[point] # EMPTY THEN None
    ELSE LET taken == blocks_taken(b, point, color)
         IN  IF /\ is_surrounded(b, point, opponent(color))
                /\ Cardinality(taken) = 1
                /\ \A blk \in taken : Cardinality(blk) = 1
             THEN CHOOSE q \in UNION taken : TRUE
             ELSE None

\* every index of the array, and the pass sentinel
PointArgs == (0 .. maxpoint - 1) \cup {PASS}

Budgets == (0 .. MaxBudget) \cup {Unlimited}

Idle == [op |-> "idle", point |-> None, color |-> EMPTY, outcome |-> "",
         ret |-> FALSE, budget |-> 0, win |-> FALSE, timeOut |-> FALSE,
         move |-> None, restored |-> TRUE, shrinks |-> TRUE, depth |-> 0,
         hits |-> 0, empties |-> 0, ko_shape |-> None, first |-> None,
         cut |-> FALSE, size_arg |-> None, tt |-> tt_new, probes |-> 0,
         plies |-> 0, stores |-> 0, same_side |-> TRUE, block |-> {}]

\* reset(sz), as the constructor runs it
reset(sz) ==
    /\ size = sz
    /\ board = Reset[sz].board
    /\ current_player = BLACK
    /\ ko_recapture = None
    /\ moves = <<>>
    /\ current_winning_move = None
    /\ last = Idle

Init == reset(Size)

IsLegal ==
    /\ last.op = "idle"
    /\ \E point \in PointArgs, color \in Colors :
          \E r \in {is_legal(board, point, color)} :
              /\ board' = r.board
              /\ last' = [Idle EXCEPT !.op = "is_legal", !.point = point,
                                      !.color = color, !.ret = r.ret]
    /\ UNCHANGED <<size, current_player, ko_recapture, moves, current_winning_move>>

PlayMoveUpTo(cap, args, colors) ==
    /\ last.op = "idle"
    /\ \E point \in args, color \in colors :
          \E r \in {play_move(board, ko_recapture, moves, current_player,
                               point, color)} :
              /\ r.outcome = "ok" => Len(moves) < cap
              /\ board' = r.board
              /\ ko_recapture' = r.ko
              /\ moves' = r.moves
              /\ current_player' = r.cp
              /\ last' = [Idle EXCEPT !.op = "play_move", !.point = point,
                                      !.color = color, !.outcome = r.outcome,
                                      !.ret = (r.outcome = "ok"),
                                      !.ko_shape = ko_capture(board, point, color)]
    /\ UNCHANGED <<size, current_winning_move>>

PlayMove == PlayMoveUpTo(MaxMoves, PointArgs, Colors)

SolveUpTo(maxEmpties, budgets) ==
    /\ last.op = "idle"
    /\ empty_count(board) <= maxEmpties
    /\ \E budget \in budgets :
          \E r \in {solve_search(board, current_player, current_winning_move,
                                  budget)} :
              /\ board' = r.run.board
              /\ current_player' = r.run.cp
              /\ current_winning_move' = r.run.cwm
              /\ \E color \in Colors :
                    last' = [Idle EXCEPT
                               !.op = "solve", !.color = color, !.budget = budget,
                               !.win = r.win, !.timeOut = r.timeOut,
                               !.ret = solve_result(r.win, color, r.run.cp),
                               !.move = r.run.cwm,
                               !.restored = r.run.restored,
                               !.shrinks = r.run.shrinks,
                               !.depth = r.run.depth,
                               !.hits = r.run.hits,
                               !.first = r.run.first,
                               !.cut = r.run.cut,
                               !.tt = r.run.tt,
                               !.probes = r.run.probes,
                               !.plies = r.run.plies,
                               !.stores = r.run.stores,
                               !.same_side = r.run.same_side,
                               !.empties = empty_count(board)]
    /\ UNCHANGED <<size, ko_recapture, moves>>

Solve == SolveUpTo(MaxSearchEmpties, Budgets)

\* the caller has read the result
Return ==
    /\ last.op # "idle"
    /\ last' = Idle
    /\ UNCHANGED <<size, board, current_player, ko_recapture, moves,
                   current_winning_move>>

Next == IsLegal \/ PlayMove \/ Solve \/ Return

Spec == Init /\ [][Next]_vars

(***************************************************************************)
(* The board engine alone: callers that probe and play but never search.   *)
(***************************************************************************)
NextBoard == IsLegal \/ PlayMove \/ Return

SpecBoard == Init /\ [][NextBoard]_vars

(***************************************************************************)
(* The ko scenario: a game on a board large enough for the ko shape, in    *)
(* which the players move in turn on points of the playing area.           *)
(***************************************************************************)
InitLarge == reset(LargeSize)

PlayMoveKo == PlayMoveUpTo(KoMoves, Range(valid_points), {current_player})

NextKo == PlayMoveKo \/ Return

SpecKo == InitLarge /\ [][NextKo]_vars

(***************************************************************************)
(* The search scenario: the players move in turn on the first rows of the  *)
(* larger board, and the position is solved without a time limit once few  *)
(* enough points are empty.                                                *)
(***************************************************************************)
SearchPoints == {p \in Range(valid_points) : p < row_start(size, SearchRows + 1)}

PlayMoveSearch == PlayMoveUpTo(SearchMoves, SearchPoints, {current_player})

SolveSearch == SolveUpTo(SearchEmpties, {Unlimited})

NextSearch == PlayMoveSearch \/ SolveSearch \/ Return

SpecSearch == InitLarge /\ [][NextSearch]_vars

(***************************************************************************)
(* The reset scenario: a caller that calls reset(size) on the constructed  *)
(* board, whose constructor has checked 2 <= size <= MAXSIZE, and probes   *)
(* and plays on the board reset leaves.                                    *)
(***************************************************************************)
ResetSizes == 0 .. MaxResetSize

\* reset(sz) called on the board object: it has no check of its own
ResetBoard ==
    /\ last.op = "idle"
    /\ \E sz \in ResetSizes :
          /\ size' = sz
          /\ board' = Reset[sz].board
          /\ current_player' = BLACK
          /\ ko_recapture' = None
          /\ moves' = <<>>
          /\ current_winning_move' = None
          /\ last' = [Idle EXCEPT !.op = "reset", !.size_arg = sz,
                                  !.outcome = "ok"]

PlayMoveReset == PlayMoveUpTo(ResetMoves, PointArgs, Colors)

NextReset == ResetBoard \/ IsLegal \/ PlayMoveReset \/ Return

SpecReset == Init /\ [][NextReset]_vars

(***************************************************************************)
(* The position-key scenario: the opening moves of a game on the larger    *)
(* board, played in turn on its first rows.                                *)
(***************************************************************************)
PlayMoveCode == PlayMoveUpTo(CodeMoves, SearchPoints, {current_player})

NextCode == PlayMoveCode \/ Return

SpecCode == InitLarge /\ [][NextCode]_vars

(***************************************************************************)
(* The block scenario: stones of either colour are played on the first     *)
(* rows of the larger board, and a caller asks for the block of any cell   *)
(* of the array.                                                           *)
(***************************************************************************)
PlayMoveBlock == PlayMoveUpTo(BlockMoves, SearchPoints, Colors)

\* _block_of(stone): the marked points, or the failure of its assertion
BlockOf ==
    /\ last.op = "idle"
    /\ \E stone \in DOMAIN board :
          last' = [Idle EXCEPT
                     !.op = "block_of", !.point = stone,
                     !.outcome = IF block_of_asserted(board, stone)
                                 THEN "ok" ELSE "assert",
                     !.block = IF block_of_asserted(board, stone)
                               THEN block_of(board, stone) ELSE {}]
    /\ UNCHANGED <<size, board, current_player, ko_recapture, moves,
                   current_winning_move>>

NextBlock == PlayMoveBlock \/ BlockOf \/ Return

SpecBlock == InitLarge /\ [][NextBlock]_vars

(***************************************************************************)
(* Properties.                                                             *)
(***************************************************************************)
\* the fields a caller can read besides the solver's winning move
Frame == <<board, current_player, ko_recapture, moves>>

\* C1: is_legal is a pure predicate: whatever it returns, every board cell,
\* current_player, ko_recapture and the move history are as before the call.
C1_IsLegalPure == [][last'.op = "is_legal" => Frame' = Frame]_vars

\* C1 witness: the probe put a stone on an empty point, rejected the move and
\* returned with stones on the board.
C1_Witness ==
    /\ last.op = "is_legal"
    /\ last.point # PASS
    /\ board[last.point] = EMPTY
    /\ ~last.ret
    /\ \E p \in DOMAIN board : board[p] = opponent(last.color)

\* C2 (as claimed): a play_move that fails (pass, ko point, occupied, capture,
\* suicide) leaves every board cell, current_player, ko_recapture and the
\* move history as before the call.
C2_FailedPlayLeavesNoTrace ==
    [][(last'.op = "play_move" /\ last'.outcome # "ok") => Frame' = Frame]_vars

\* C3 (as claimed): after any play_move call that put a stone on the board and
\* removed no opponent stone, the block of the just-played stone has a liberty.
C3_SuicideInvariant ==
    (/\ last.op = "play_move"
     /\ last.outcome \in {"ok", "capture", "suicide"}
     /\ board[last.point] = last.color)
    => has_liberty(board, block_of(board, last.point))

\* C4 (as claimed): a play_move that takes the last liberty of an adjacent
\* opponent block is committed, and every point of that block becomes EMPTY.
C4_CaptureCommitsAndEmpties ==
    [][(/\ last'.op = "play_move"
        /\ last'.point # PASS
        /\ board[last'.point] = EMPTY
        /\ last'.point # ko_recapture
        /\ blocks_taken(board, last'.point, last'.color) # {})
       => (/\ last'.outcome = "ok"
           /\ \A q \in UNION blocks_taken(board, last'.point, last'.color) :
                 board'[q] = EMPTY)]_vars

\* C5 (as claimed): after a play_move that captures exactly one opponent stone
\* from a point surrounded by opponent stones, a play_move of the opponent at
\* the captured point returns False and leaves the board unchanged, while
\* every other move that is legal for the opponent is accepted.
C5_KoRecaptureRejected ==
    (last.op = "play_move" /\ last.ko_shape # None)
    => LET opp == opponent(last.color)
           re  == play_move(board, ko_recapture, moves, current_player,
                            last.ko_shape, opp)
       IN  /\ re.outcome = "ko"
           /\ re.board = board
           /\ \A p \in Range(valid_points) \ {last.ko_shape} :
                 is_legal(board, p, opp).ret
                 => play_move(board, ko_recapture, moves, current_player,
                              p, opp).outcome = "ok"

\* the colour to move after n alternations from Black
alternated(n) == IF n % 2 = 0 THEN BLACK ELSE WHITE

\* every committed move was played by the colour whose turn it was: stones
\* are never removed or replaced, so the colour of the i-th committed move
\* is still on its point
in_turn ==
    \A i \in 1 .. Len(moves) :
        board[moves[i]] = IF i = 1 THEN BLACK ELSE opponent(board[moves[i - 1]])

\* C6 (as claimed): after N committed moves current_player is Black for even
\* N and White for odd N, whatever colours were passed.
C6_AlternatesRegardless == current_player = alternated(Len(moves))

\* C6 (amended): a committed play_move(point, color) leaves current_player
\* the opponent of color; when every committed move was played by the colour
\* whose turn it was, current_player after N committed moves is Black for
\* even N and White for odd N.
C6_AlternatesInTurn ==
    /\ (last.op = "play_move" /\ last.outcome = "ok")
          => current_player = opponent(last.color)
    /\ in_turn => current_player = alternated(Len(moves))

\* C6 witness: two moves committed in turn, the second one just now.
C6_Witness ==
    /\ last.op = "play_move"
    /\ last.outcome = "ok"
    /\ Len(moves) = 2
    /\ in_turn

\* C7: in every reachable state the grid has its length of reset, every
\* border cell holds BORDER and every playing-area cell holds EMPTY, BLACK
\* or WHITE.
C7_CellsWellFormed ==
    /\ DOMAIN board = 0 .. maxpoint - 1
    /\ \A p \in DOMAIN board :
          IF Reset[size].board[p] = BORDER
          THEN board[p] = BORDER
          ELSE board[p] \in {EMPTY, BLACK, WHITE}

\* C7 witness: a play on a border cell was refused, on a board with stones of
\* both colours, after a search had run.
C7_Witness ==
    /\ last.op = "play_move"
    /\ last.point # PASS
    /\ Reset[size].board[last.point] = BORDER
    /\ last.outcome = "occupied"
    /\ \E p, q \in DOMAIN board : board[p] = BLACK /\ board[q] = WHITE
    /\ current_winning_move # None

\* C8: the solver restores the board on every exit path: every call of
\* negamaxBoolean and solve_single that finished, at any depth and however it
\* ended, left every board cell and current_player as they were at its entry.
C8_SolverRestores == last.op = "solve" => last.restored

\* C8 witness: a solve whose search went at least two plies deep and returned
\* from a position it found in the table, with the board restored.
C8_Witness ==
    /\ last.op = "solve"
    /\ last.depth >= 2
    /\ last.hits > 0
    /\ last.restored

\* the uncached negamax: the side to move wins iff some legal move leads to a
\* position that is a loss for the opponent
RECURSIVE reference_win(_, _)
reference_win(b, cp) ==
    \E move \in {p \in DOMAIN b : b[p] = EMPTY} :
        /\ is_legal(b, move, cp).ret
        /\ ~reference_win([b EXCEPT ![move] = cp], opponent(cp))

\* C9: with no deadline expiry, negamaxBoolean with a fresh table returns on
\* every board what the uncached negamax returns, and that is the verdict of
\* the search solve ran when it took the generic path.
C9_CacheIsMemoization ==
    (last.op = "solve" /\ last.budget = Unlimited)
    => LET ref == reference_win(board, current_player)
           run == negamaxBoolean(search_start(board, current_player,
                                              current_winning_move, Unlimited))
       IN  /\ run.ret = ref
           /\ sigle_play(board) = <<>> => last.win = ref

\* C9 witness: an untimed generic search that answered positions from the
\* table on its way to a win.
C9_Witness ==
    /\ last.op = "solve"
    /\ last.budget = Unlimited
    /\ sigle_play(board) = <<>>
    /\ last.hits > 0
    /\ last.win

\* C10: with an unlimited time budget solve ends with the timed-out flag
\* false; every recursive call started on a board with fewer empty points than
\* its caller's, so the nesting never exceeded the number of empty points.
C10_UntimedSolveEnds ==
    (last.op = "solve" /\ last.budget = Unlimited)
    => /\ ~last.timeOut
       /\ last.shrinks
       /\ last.depth <= last.empties

\* C10 witness: an untimed solve whose search went at least two plies deep
\* and ended with the timed-out flag false.
C10_Witness ==
    /\ last.op = "solve"
    /\ last.budget = Unlimited
    /\ ~last.timeOut
    /\ last.depth >= 2

\* C11: when solve, with the deadline never expiring, finds that the side to
\* move wins, the winning move it returns is an empty point of the root
\* position that is legal for the side to move, and the position after that
\* move is a loss for the opponent.
C11_WinningMoveWins ==
    (last.op = "solve" /\ last.win /\ ~last.timeOut)
    => /\ last.move \in DOMAIN board
       /\ board[last.move] = EMPTY
       /\ is_legal(board, last.move, current_player).ret
       /\ ~reference_win([board EXCEPT ![last.move] = current_player],
                         opponent(current_player))

\* C11 witness: a search at least two plies deep that ended in time with a
\* win for the side to move, on a board that already held a stone.
C11_Witness ==
    /\ last.op = "solve"
    /\ last.win
    /\ ~last.timeOut
    /\ last.depth >= 2
    /\ moves # <<>>

\* C12 (as claimed): when the root verdict of the search is a loss for the
\* side to move, the winning move solve returns is none.
C12_NoMoveOnLoss ==
    (last.op = "solve" /\ ~last.win /\ ~last.timeOut) => last.move = None

\* every configuration of a board of the current size: BORDER where reset
\* put it, any of EMPTY, BLACK, WHITE on each point of the playing area
configurations ==
    LET empty == Reset[size].board
    IN  {[p \in DOMAIN empty |-> IF empty[p] = BORDER THEN BORDER ELSE f[p]] :
           f \in [Range(valid_points) -> {EMPTY, BLACK, WHITE}]}

\* C13: the position key is a function of the cell contents alone, and for a
\* fixed board size it is injective: a configuration has the key of the
\* current board iff it is the current board, whatever ko point, history and
\* player to move the board object has, and no two configurations that
\* differ in a playing-area cell share a key.
C13_CodeInjective ==
    LET all == configurations
        key == code(board)
    IN  /\ \A b \in all : (code(b) = key) <=> (b = board)
        /\ Cardinality({code(b) : b \in all}) = Cardinality(all)

\* C13 witness: a board with stones of both colours, with a history of two
\* moves and Black to move again.
C13_Witness ==
    /\ \E p, q \in DOMAIN board : board[p] = BLACK /\ board[q] = WHITE
    /\ Len(moves) = 2
    /\ current_player = BLACK
    /\ last.op = "play_move"

\* C14 (as claimed): on a board with exactly one stone and with the deadline
\* never expiring, solve_single returns the verdict of negamaxBoolean with a
\* fresh table, and the point it tries first is the point it was given.
C14_SingleTriesGivenPoint ==
    (last.op = "solve" /\ sigle_play(board) # <<>> /\ ~last.timeOut)
    => LET generic == negamaxBoolean(search_start(board, current_player,
                                                  current_winning_move, Unlimited))
       IN  /\ last.win = generic.ret
           /\ last.first = sigle_play(board)[1]

\* C14 (amended): on a board with exactly one stone and with the deadline
\* never expiring, solve_single returns the verdict of negamaxBoolean with a
\* fresh table; the point it tries first is the mirror image of the given
\* point through the middle of the board when that point is empty, and the
\* first point of the generic enumeration otherwise.
C14_SingleTriesMirror ==
    (last.op = "solve" /\ sigle_play(board) # <<>> /\ ~last.timeOut)
    => LET generic == negamaxBoolean(search_start(board, current_player,
                                                  current_winning_move, Unlimited))
           fpoint  == mirror(sigle_play(board))
       IN  /\ last.win = generic.ret
           /\ last.first = IF board[fpoint] = EMPTY THEN fpoint
                           ELSE generic.first

\* C14 witness: solve_single ran at least two plies deep within its time and
\* began with a point the generic search does not begin with.
C14_Witness ==
    /\ last.op = "solve"
    /\ sigle_play(board) # <<>>
    /\ ~last.timeOut
    /\ last.depth >= 2
    /\ last.first = mirror(sigle_play(board))
    /\ last.first # negamaxBoolean(search_start(board, current_player,
                                    current_winning_move, Unlimited)).first

\* C15: whenever a call of the search returned because the deadline had
\* passed, solve reports the timed-out flag as true.
C15_CutSearchIsTimedOut == (last.op = "solve" /\ last.cut) => last.timeOut

\* C15 witness: the deadline passed while the search was below the root, and
\* a recursive call returned because of it.
C15_Witness ==
    /\ last.op = "solve"
    /\ last.budget >= 2
    /\ last.cut
    /\ last.depth >= 2

\* C16 (as claimed): a search during which the deadline expired does not
\* report a win for the side to move at a root position whose untimed negamax
\* value is a loss.
C16_TimedSearchConservative ==
    (last.op = "solve" /\ last.cut /\ last.win)
    => reference_win(board, current_player)

\* C17 (as claimed): reset(size) with a size outside 2..MAXSIZE fails with a
\* precondition violation and produces no board.
C17_ResetRejectsBadSize ==
    (last.op = "reset" /\ ~(2 <= last.size_arg /\ last.size_arg <= MAXSIZE))
    => last.outcome = "assert"

\* no border cell, index 0 among them, is accepted as a move by is_legal or
\* play_move
border_never_accepted ==
    /\ Reset[size].board[0] = BORDER
    /\ (/\ last.op \in {"is_legal", "play_move"}
        /\ last.point # PASS
        /\ Reset[size].board[last.point] = BORDER)
       => ~last.ret

\* C18 (as claimed): for every 1-indexed row and col in 1..size the index
\* row*(size+1)+1+col is a playing-area cell after reset, and no border cell
\* is accepted as a move.
C18_IndexPlusOne ==
    /\ \A row, col \in 1 .. size :
          Reset[size].board[row * (size + 1) + 1 + col] # BORDER
    /\ border_never_accepted

\* C18 (amended): for every 1-indexed row and col in 1..size the index
\* row*(size+1)+col is a playing-area cell after reset, it is the col-th cell
\* of the row reset fills from row_start, and _point_to_coord maps it back to
\* (row, col); no border cell, index 0 among them, is accepted as a move by
\* is_legal or play_move.
C18_IndexMapping ==
    /\ \A row, col \in 1 .. size :
          LET point == row * (size + 1) + col
          IN  /\ Reset[size].board[point] = EMPTY
              /\ point = row_start(size, row) + col - 1
              /\ point_to_coord(point) = <<row, col>>
    /\ border_never_accepted

\* C18 witness: on the largest board, after a stone was accepted on a
\* playing-area cell, is_legal refused a border cell.
C18_Witness ==
    /\ size = MaxResetSize
    /\ moves # <<>>
    /\ last.op = "is_legal"
    /\ last.point # PASS
    /\ Reset[size].board[last.point] = BORDER
    /\ ~last.ret

\* two cells of the grid next to each other in a row or in a column
adjacent(p, q) == q - p \in {1, -1, size + 1, -(size + 1)}

\* the stones connected to the cells of group through adjacent stones of
\* the same colour
RECURSIVE connected(_, _, _)
connected(b, color, group) ==
    LET more == group \cup {q \in DOMAIN b :
                               /\ b[q] = color
                               /\ \E p \in group : adjacent(p, q)}
    IN  IF more = group THEN group ELSE connected(b, color, more)

\* the empty cells adjacent to a stone of group
liberties(b, group) ==
    {q \in DOMAIN b : b[q] = EMPTY /\ \E p \in group : adjacent(p, q)}

\* the rule is_legal is claimed to decide
legal_by_rule(b, point, color) ==
    /\ point # PASS
    /\ b[point] = EMPTY
    /\ LET placed == [b EXCEPT ![point] = color]
       IN  /\ \A q \in DOMAIN b :
                 (adjacent(point, q) /\ placed[q] = opponent(color))
                 => liberties(placed, connected(placed, opponent(color), {q})) # {}
           /\ liberties(placed, connected(placed, color, {point})) # {}

\* C19: is_legal(point, color) returns True iff point is not the pass
\* sentinel, the cell is EMPTY, with color placed on it no adjacent opponent
\* block is without liberties, and the block of the placed stone has a
\* liberty (is_legal leaves the board as it found it, so the rule is read on
\* the board after the call).
C19_IsLegalRule ==
    last.op = "is_legal"
    => last.ret = legal_by_rule(board, last.point, last.color)

\* C19 witness: is_legal refused an empty point only because the stone would
\* take the last liberty of an adjacent opponent block.
C19_Witness ==
    /\ last.op = "is_legal"
    /\ last.point # PASS
    /\ board[last.point] = EMPTY
    /\ ~last.ret
    /\ is_legal_ignores_capture(board, last.point, last.color).ret

\* the side to move has no legal move on any point of the board
no_legal_move(b, cp) == \A p \in DOMAIN b : ~is_legal(b, p, cp).ret

\* C20: when solve has searched, with a deadline that did not cut off the
\* root call, a position where the side to move has no legal move, the search
\* returned a loss for the side to move (the winner is the opponent, who
\* moved last) and stored that loss in the table under the key of the
\* position.
C20_TerminalIsLoss ==
    (/\ last.op = "solve"
     /\ last.budget >= 1
     /\ no_legal_move(board, current_player))
    => /\ winner(current_player) = opponent(current_player)
       /\ ~last.win
       /\ LET run == call_search(search_start(board, current_player,
                          current_winning_move, deadline(last.budget)),
                                 sigle_play(board))
          IN  /\ ~run.ret
              /\ tt_has(run.tt, code(board))
              /\ ~tt_lookup(run.tt, code(board))

\* C20 witness: solve ran, with time, on a board where a point is still
\* empty but the side to move has no legal move.
C20_Witness ==
    /\ last.op = "solve"
    /\ last.budget >= 1
    /\ empty_count(board) >= 1
    /\ no_legal_move(board, current_player)
    /\ ~last.win

(***************************************************************************)
(* C21..C25                                                                *)
(***************************************************************************)
\* a recursive call on the position solve has just searched, entered with
\* the table that search left and with the deadline at ticks polls ahead
reentry(ticks) ==
    [search_start(board, current_player, current_winning_move, ticks)
        EXCEPT !.tt = last.tt]

\* the call left the board, the side to move, the recorded move and the
\* table as it found them, and placed no stone
untouched(entry, exit) ==
    /\ exit.board = entry.board
    /\ exit.cp = entry.cp
    /\ exit.cwm = entry.cwm
    /\ exit.tt = entry.tt
    /\ exit.stores = entry.stores
    /\ exit.plies = entry.plies

\* C21: a search call entered after the deadline has passed returns False
\* without probing or writing the table and without touching board or
\* current_player; a call on a position whose key is in the table returns the
\* cached boolean after one probe, without placing a stone or touching the
\* board.  Inside a search, a run cut at its root has probed nothing.
C21_ImmediateReturns ==
    last.op = "solve" =>
        /\ \A late \in {negamaxBoolean(reentry(0)),
                        call_search(reentry(0), sigle_play(board))} :
              /\ ~late.ret
              /\ late.probes = 0
              /\ untouched(reentry(0), late)
        /\ tt_has(last.tt, code(board)) =>
              \A again \in {negamaxBoolean(reentry(Unlimited)),
                            call_search(reentry(Unlimited), sigle_play(board))} :
                  /\ again.ret = tt_lookup(last.tt, code(board))
                  /\ again.probes = 1
                  /\ again.hits = 1
                  /\ untouched(reentry(Unlimited), again)
        /\ last.budget = 0 =>
              /\ ~last.win /\ last.cut
              /\ last.probes = 0 /\ last.plies = 0 /\ last.stores = 0
              /\ last.tt = tt_new

\* C21 witness: a search that was cut by the deadline below its root and
\* still cached its root position, so that both re-entries have run
C21_Witness ==
    /\ last.op = "solve"
    /\ last.cut /\ last.depth >= 1
    /\ tt_has(last.tt, code(board))

\* C22: within one top-level search the table only grows: every store adds
\* a key that was not there, so that no entry is removed and no value is
\* overwritten (the table solve is left with holds as many entries as
\* stores were made), and the search starts from an empty table: it holds
\* no key but those of positions that contain the stones of the root.
C22_CacheOnlyGrows ==
    last.op = "solve" =>
        /\ Cardinality(DOMAIN last.tt) = last.stores
        /\ DOMAIN search_start(board, current_player, current_winning_move,
                               deadline(last.budget)).tt = {}
        /\ \A k \in DOMAIN last.tt : k >= code(board)
        /\ last.stores <= last.probes

\* C22 witness: a search that stored several positions and met one of them
\* again
C22_Witness ==
    /\ last.op = "solve"
    /\ last.stores >= 3
    /\ last.hits >= 1

\* C23: _block_of(stone) returns exactly the maximal set of cells that hold
\* the colour of stone and are connected to stone through adjacent cells of
\* that colour, and fails its assertion when the cell at stone is EMPTY or
\* BORDER.
C23_BlockOfIsComponent ==
    last.op = "block_of" =>
        IF board[last.point] \in {BLACK, WHITE}
        THEN /\ last.outcome = "ok"
             /\ last.block = connected(board, board[last.point], {last.point})
        ELSE last.outcome = "assert"

\* C23 witness: the block of a stone with a stone of its colour two steps
\* away, next to a stone of the other colour
C23_Witness ==
    /\ last.op = "block_of"
    /\ last.outcome = "ok"
    /\ Cardinality(last.block) >= 3
    /\ \E q \in DOMAIN board : \E p \in last.block :
          adjacent(p, q) /\ board[q] = opponent(board[last.point])

\* the assertion of _block_of failed on an empty cell and on a border cell
C23_AssertWitness ==
    /\ last.op = "block_of"
    /\ last.outcome = "assert"
    /\ board[last.point] = BORDER

\* C24: within one top-level search, the calls that computed the same
\* position key had the same side to move: the side noted under a key when
\* a call first computed it is the side to move of every later call that
\* computed that key; and every ply placed one stone on an empty point.
C24_KeyDeterminesSide ==
    last.op = "solve" => (last.same_side /\ last.shrinks)

\* C24 witness: a search of three plies or more in which a call met a key
\* that an earlier call had stored
C24_Witness ==
    /\ last.op = "solve"
    /\ last.depth >= 3
    /\ last.hits >= 2
    /\ last.probes > last.stores

\* C25 (as claimed): in every state reached from the empty board by play_move
\* calls, failed or not, and searches, every block of stones on the board
\* has at least one liberty.
C25_EveryBlockHasLiberty ==
    \A p \in DOMAIN board :
        board[p] \in {BLACK, WHITE}
        => liberties(board, connected(board, board[p], {p})) # {}

====
